---- MODULE Spec2Model ----
(***************************************************************************)
(* Favorites API of the Pokemon-style REST server (src/src/app.py).        *)
(*                                                                         *)
(* The store is four tables: users, pokemons, regions (sets of primary     *)
(* keys) and favorites (a set of rows).  Three specifications are given:   *)
(*   Spec          requests handled one at a time, each handler atomic;    *)
(*   SpecResolver  the identity resolver applied to every request context; *)
(*   SpecConc      two workers running the add handlers statement by       *)
(*                 statement against the shared store.                     *)
(***************************************************************************)
EXTENDS Integers, Sequences, FiniteSets, TLC

VARIABLES users, pokemons, regions, favorites, request, response,
          ctx, resolved, workers

vars == <<users, pokemons, regions, favorites, request, response,
          ctx, resolved, workers>>

storeVars == <<users, pokemons, regions, favorites>>

----------------------------------------------------------------------------
(* Bounds of the model *)

\* largest primary key the favorites table hands out
MaxFavId == 3
\* longest user_id / X-User-Id string tried against the resolver
MaxStrLen == 2

\* primary keys that rows of the reference tables can carry (autoincrement
\* keys start at 1)
UserIds == {1, 2}
PokemonIds == {1}
RegionIds == {1}
\* <int:...> path converters accept any non-negative integer; 0 never names
\* a row
PathIds == {0, 1}
Workers == {1, 2}

\* SQL NULL / Python None in an integer column
Null == 0 - 1

----------------------------------------------------------------------------
(* Strings of the request context.  A string is a sequence of characters;  *)
(* "sup2" is U+00B2 SUPERSCRIPT TWO, a character for which str.isdigit()   *)
(* is True and int() raises ValueError; "x" is any non-digit.              *)

AsciiDigits == {"0", "1", "2"}
IsDigitChars == AsciiDigits \cup {"sup2"}
Chars == IsDigitChars \cup {"x"}

DigitVal(c) == CASE c = "0" -> 0 [] c = "1" -> 1 [] c = "2" -> 2 [] OTHER -> 0

StringsUpTo(n) == UNION {[1..k -> Chars] : k \in 0..n}

\* request.args.get(...) / request.headers.get(...): None or a string
Absent == [present |-> FALSE, val |-> <<>>]
Given(s) == [present |-> TRUE, val |-> s]
ParamValues(n) == {Absent} \cup {Given(s) : s \in StringsUpTo(n)}

\* Python truthiness of an Optional[str]
StrTruthy(p) == p.present /\ Len(p.val) > 0

\* str.isdigit()
isdigit(s) == Len(s) > 0 /\ \A i \in 1..Len(s) : s[i] \in IsDigitChars

RECURSIVE DecimalValue(_)
DecimalValue(s) ==
    IF Len(s) = 0 THEN 0
    ELSE 10 * DecimalValue(SubSeq(s, 1, Len(s) - 1)) + DigitVal(s[Len(s)])

Returned(n) == [tag |-> "return", val |-> n]
Raised(status) == [tag |-> "raise", val |-> status]

\* int(s) for a string that passed isdigit(): ValueError is not an
\* APIException, so Flask answers 500
int(s) ==
    IF \A i \in 1..Len(s) : s[i] \in AsciiDigits
    THEN Returned(DecimalValue(s))
    ELSE Raised(500)

SetMin(S) == CHOOSE m \in S : \A x \in S : m <= x

\* User.query.order_by(User.id.asc()).first()
FirstUser(us) == IF us = {} THEN Null ELSE SetMin(us)

get_current_user_id(q, h, us) ==
    IF StrTruthy(q) /\ isdigit(q.val) THEN int(q.val)
    ELSE IF StrTruthy(h) /\ isdigit(h.val) THEN int(h.val)
    ELSE IF FirstUser(us) = Null THEN Raised(400)
    ELSE Returned(FirstUser(us))

\* slip: only checks that the users table is not empty
EnsureAnyUser(user_id, us) == us # {}

\* User.query.get(user_id) is not None
ensure_user_exists(user_id, us) == user_id \in us

----------------------------------------------------------------------------
(* The favorites table.  A row is a record of its four columns.            *)

Favorite(id, user_id, pokemon_id, region_id) ==
    [id |-> id, user_id |-> user_id, pokemon_id |-> pokemon_id,
     region_id |-> region_id]

NoFavorite == Favorite(0, 0, Null, Null)

\* slip: the keyword arguments user_id and pokemon_id exchanged
NewPokemonFavoriteSwapped(id, user_id, pokemon_id) ==
    Favorite(id, pokemon_id, user_id, Null)

\* Favorite(user_id=user_id, pokemon_id=pokemon_id, region_id=None)
NewPokemonFavorite(id, user_id, pokemon_id) ==
    Favorite(id, user_id, pokemon_id, Null)

\* slip: pokemon_id filled with the region's id instead of None
NewRegionFavoriteBothSet(id, user_id, region_id) ==
    Favorite(id, user_id, region_id, region_id)

\* Favorite(user_id=user_id, region_id=region_id, pokemon_id=None)
NewRegionFavorite(id, user_id, region_id) ==
    Favorite(id, user_id, Null, region_id)

\* slip: the filter names only the pokemon, not the user
FilterByPokemonOnly(favs, user_id, pokemon_id) ==
    {f \in favs : f.pokemon_id = pokemon_id}

\* Favorite.query.filter_by(user_id=user_id, pokemon_id=pokemon_id)
FilterByUserPokemon(favs, user_id, pokemon_id) ==
    {f \in favs : f.user_id = user_id /\ f.pokemon_id = pokemon_id}

\* slip: the region handlers filter on the pokemon_id column
FilterByRegionWrongColumn(favs, user_id, region_id) ==
    {f \in favs : f.user_id = user_id /\ f.pokemon_id = region_id}

\* Favorite.query.filter_by(user_id=user_id, region_id=region_id)
FilterByUserRegion(favs, user_id, region_id) ==
    {f \in favs : f.user_id = user_id /\ f.region_id = region_id}

\* Favorite.query.filter_by(user_id=user_id)
FilterByUser(favs, user_id) == {f \in favs : f.user_id = user_id}

\* .order_by(Favorite.id.asc()).all(): the rows as a list, lowest id first
RECURSIVE OrderByIdAsc(_)
OrderByIdAsc(rows) ==
    IF rows = {} THEN <<>>
    ELSE LET lo == CHOOSE f \in rows : \A g \in rows : f.id <= g.id
         IN  <<lo>> \o OrderByIdAsc(rows \ {lo})

\* The primary key of an inserted row.  SQLite's rowid takes max+1, a
\* PostgreSQL sequence takes the next unused value: either way a key above
\* every key in the table.
NewIds(favs) ==
    {i \in 1..MaxFavId : \A f \in favs : f.id < i}

\* variant: the insert is dropped when the pair is already in the table
InsertUnlessDuplicate(favs, fav) ==
    IF \E f \in favs : /\ f.user_id = fav.user_id
                       /\ f.pokemon_id = fav.pokemon_id
                       /\ f.region_id = fav.region_id
    THEN favs
    ELSE favs \cup {fav}

\* db.session.add(fav); db.session.commit()
InsertFavorite(favs, fav) == favs \cup {fav}

\* slip: the delete takes every row of the favorite's user
DeleteAllOfUser(favs, fav) == {f \in favs : f.user_id # fav.user_id}

\* db.session.delete(fav); db.session.commit()
DeleteFavorite(favs, fav) == favs \ {fav}

----------------------------------------------------------------------------
(* JSON bodies *)

\* Python truthiness of an Optional[int] column
IntTruthy(x) == x # Null /\ x # 0

\* Favorite.serialize(): the four columns
FavoriteSerialize(f) ==
    [id |-> f.id, user_id |-> f.user_id, pokemon_id |-> f.pokemon_id,
     region_id |-> f.region_id]

FieldAbsent == [tag |-> "absent", id |-> 0]
JsonNull == [tag |-> "null", id |-> 0]
PokemonSerialize(id) == [tag |-> "pokemon", id |-> id]
RegionSerialize(id) == [tag |-> "region", id |-> id]

\* slip: the field is left out when the Pokemon row is gone
EnrichPokemonOmitMissing(f, pks) ==
    IF IntTruthy(f.pokemon_id) /\ f.pokemon_id \in pks
    THEN PokemonSerialize(f.pokemon_id)
    ELSE FieldAbsent

\* item["pokemon"] of one listed favorite
EnrichPokemon(f, pks) ==
    IF IntTruthy(f.pokemon_id)
    THEN IF f.pokemon_id \in pks THEN PokemonSerialize(f.pokemon_id)
         ELSE JsonNull
    ELSE FieldAbsent

\* item["region"] of one listed favorite
EnrichRegion(f, rgs) ==
    IF IntTruthy(f.region_id)
    THEN IF f.region_id \in rgs THEN RegionSerialize(f.region_id)
         ELSE JsonNull
    ELSE FieldAbsent

\* one element of the list answered by GET /users/favorites
Item(f, pks, rgs) ==
    [fav |-> FavoriteSerialize(f), pokemon |-> EnrichPokemon(f, pks),
     region |-> EnrichRegion(f, rgs)]

ListItems(favs, user_id, pks, rgs) ==
    LET rows == OrderByIdAsc(FilterByUser(favs, user_id))
    IN  [i \in 1..Len(rows) |-> Item(rows[i], pks, rgs)]

----------------------------------------------------------------------------
(* Requests handled one at a time *)

NoResolved == [tag |-> "none", val |-> 0]
NoRequest == [op |-> "none", target |-> 0, resolved |-> NoResolved]
NoResponse == [status |-> 0, msg |-> "none", favorite |-> NoFavorite,
               items |-> <<>>]
IdleWorker == [pc |-> "idle", kind |-> "none", target |-> 0, user_id |-> 0,
               status |-> 0, favorite |-> NoFavorite]

\* strings the handlers of Spec receive as user_id and X-User-Id
RequestParams ==
    {Absent, Given(<<"2">>), Given(<<"x">>)}

Init ==
    /\ users \in SUBSET UserIds
    /\ pokemons = PokemonIds
    /\ regions = RegionIds
    /\ favorites = {}
    /\ request = NoRequest
    /\ response = NoResponse
    /\ ctx = [q |-> Absent, h |-> Absent]
    /\ resolved = NoResolved
    /\ workers = [w \in Workers |-> IdleWorker]

\* the handler's answer, with the request it answers
Respond(op, target, r, status, msg, fav, items) ==
    /\ request' = [op |-> op, target |-> target, resolved |-> r]
    /\ response' = [status |-> status, msg |-> msg, favorite |-> fav,
                    items |-> items]

\* an exception raised before the handler touched the store
Abort(op, target, r, status, msg) ==
    /\ Respond(op, target, r, status, msg, NoFavorite, <<>>)
    /\ UNCHANGED favorites

\* the exception get_current_user_id / ensure_user_exists ends the request
\* with, or "none" when both pass
UserError(r, us) ==
    IF r.tag = "raise"
    THEN [status |-> r.val, msg |-> IF r.val = 400 THEN "no users" ELSE "server error"]
    ELSE IF ~ensure_user_exists(r.val, us)
    THEN [status |-> 404, msg |-> "user not found"]
    ELSE [status |-> 200, msg |-> "none"]

list_my_favorites(q, h) ==
    LET r == get_current_user_id(q, h, users)
        e == UserError(r, users)
    IN  /\ IF e.msg # "none"
           THEN Respond("list", 0, r, e.status, e.msg, NoFavorite, <<>>)
           ELSE Respond("list", 0, r, 200, "ok", NoFavorite,
                        ListItems(favorites, r.val, pokemons, regions))
        /\ UNCHANGED <<storeVars, ctx, resolved, workers>>

add_fav_pokemon(q, h, pokemon_id) ==
    LET r == get_current_user_id(q, h, users)
        e == UserError(r, users)
        exists == FilterByUserPokemon(favorites, r.val, pokemon_id)
    IN  /\ IF e.msg # "none"
           THEN Abort("add_pokemon", pokemon_id, r, e.status, e.msg)
           ELSE IF pokemon_id \notin pokemons
           THEN Abort("add_pokemon", pokemon_id, r, 404, "pokemon not found")
           ELSE IF exists # {}
           THEN /\ \E x \in exists :
                     Respond("add_pokemon", pokemon_id, r, 200, "already",
                             FavoriteSerialize(x), <<>>)
                /\ UNCHANGED favorites
           ELSE \E id \in NewIds(favorites) :
                   LET fav == NewPokemonFavorite(id, r.val, pokemon_id)
                   IN  /\ favorites' = InsertFavorite(favorites, fav)
                       /\ Respond("add_pokemon", pokemon_id, r, 201, "created",
                                  FavoriteSerialize(fav), <<>>)
        /\ UNCHANGED <<users, pokemons, regions, ctx, resolved, workers>>

add_fav_region(q, h, region_id) ==
    LET r == get_current_user_id(q, h, users)
        e == UserError(r, users)
        exists == FilterByUserRegion(favorites, r.val, region_id)
    IN  /\ IF e.msg # "none"
           THEN Abort("add_region", region_id, r, e.status, e.msg)
           ELSE IF region_id \notin regions
           THEN Abort("add_region", region_id, r, 404, "region not found")
           ELSE IF exists # {}
           THEN /\ \E x \in exists :
                     Respond("add_region", region_id, r, 200, "already",
                             FavoriteSerialize(x), <<>>)
                /\ UNCHANGED favorites
           ELSE \E id \in NewIds(favorites) :
                   LET fav == NewRegionFavorite(id, r.val, region_id)
                   IN  /\ favorites' = InsertFavorite(favorites, fav)
                       /\ Respond("add_region", region_id, r, 201, "created",
                                  FavoriteSerialize(fav), <<>>)
        /\ UNCHANGED <<users, pokemons, regions, ctx, resolved, workers>>

delete_fav_pokemon(q, h, pokemon_id) ==
    LET r == get_current_user_id(q, h, users)
        e == UserError(r, users)
        found == FilterByUserPokemon(favorites, r.val, pokemon_id)
    IN  /\ IF e.msg # "none"
           THEN Abort("delete_pokemon", pokemon_id, r, e.status, e.msg)
           ELSE IF found = {}
           THEN Abort("delete_pokemon", pokemon_id, r, 404, "not in favorites")
           ELSE \E fav \in found :
                   /\ favorites' = DeleteFavorite(favorites, fav)
                   /\ Respond("delete_pokemon", pokemon_id, r, 200, "deleted",
                              NoFavorite, <<>>)
        /\ UNCHANGED <<users, pokemons, regions, ctx, resolved, workers>>

delete_fav_region(q, h, region_id) ==
    LET r == get_current_user_id(q, h, users)
        e == UserError(r, users)
        found == FilterByUserRegion(favorites, r.val, region_id)
    IN  /\ IF e.msg # "none"
           THEN Abort("delete_region", region_id, r, e.status, e.msg)
           ELSE IF found = {}
           THEN Abort("delete_region", region_id, r, 404, "not in favorites")
           ELSE \E fav \in found :
                   /\ favorites' = DeleteFavorite(favorites, fav)
                   /\ Respond("delete_region", region_id, r, 200, "deleted",
                              NoFavorite, <<>>)
        /\ UNCHANGED <<users, pokemons, regions, ctx, resolved, workers>>

\* a Pokemon row removed through the admin panel; favorites keep its id
AdminDeletePokemon(id) ==
    /\ id \in pokemons
    /\ pokemons' = pokemons \ {id}
    /\ request' = [NoRequest EXCEPT !.op = "admin"]
    /\ response' = NoResponse
    /\ UNCHANGED <<users, regions, favorites, ctx, resolved, workers>>

\* a Region row removed through the admin panel; favorites keep its id
AdminDeleteRegion(id) ==
    /\ id \in regions
    /\ regions' = regions \ {id}
    /\ request' = [NoRequest EXCEPT !.op = "admin"]
    /\ response' = NoResponse
    /\ UNCHANGED <<users, pokemons, favorites, ctx, resolved, workers>>

Next ==
    \/ \E q \in RequestParams, h \in RequestParams : list_my_favorites(q, h)
    \/ \E q \in RequestParams, h \in RequestParams, id \in PathIds :
          add_fav_pokemon(q, h, id)
    \/ \E q \in RequestParams, h \in RequestParams, id \in PathIds :
          add_fav_region(q, h, id)
    \/ \E q \in RequestParams, h \in RequestParams, id \in PathIds :
          delete_fav_pokemon(q, h, id)
    \/ \E q \in RequestParams, h \in RequestParams, id \in PathIds :
          delete_fav_region(q, h, id)
    \/ \E id \in PokemonIds : AdminDeletePokemon(id)
    \/ \E id \in RegionIds : AdminDeleteRegion(id)

Spec == Init /\ [][Next]_vars

----------------------------------------------------------------------------
(* The identity resolver on its own: every request context, every users    *)
(* table.                                                                  *)

InitResolver ==
    /\ users \in SUBSET UserIds
    /\ pokemons = PokemonIds
    /\ regions = RegionIds
    /\ favorites = {}
    /\ request = NoRequest
    /\ response = NoResponse
    /\ ctx \in [q : ParamValues(MaxStrLen), h : ParamValues(MaxStrLen)]
    /\ resolved = NoResolved
    /\ workers = [w \in Workers |-> IdleWorker]

Resolve ==
    /\ resolved = NoResolved
    /\ resolved' = get_current_user_id(ctx.q, ctx.h, users)
    /\ UNCHANGED <<storeVars, request, response, ctx, workers>>

NextResolver == Resolve

SpecResolver == InitResolver /\ [][NextResolver]_vars

----------------------------------------------------------------------------
(* Two workers running the add handlers against the shared store.  Every   *)
(* query and the commit are separate steps; nothing orders the steps of    *)
(* one request against those of the other.                                 *)

TargetExists(kind, id) ==
    IF kind = "pokemon" THEN id \in pokemons ELSE id \in regions

FilterByUserTarget(favs, kind, user_id, id) ==
    IF kind = "pokemon" THEN FilterByUserPokemon(favs, user_id, id)
    ELSE FilterByUserRegion(favs, user_id, id)

NewTargetFavorite(kind, id, user_id, target) ==
    IF kind = "pokemon" THEN NewPokemonFavorite(id, user_id, target)
    ELSE NewRegionFavorite(id, user_id, target)

Finished(w, status, fav) ==
    workers' = [workers EXCEPT ![w].pc = "done", ![w].status = status,
                               ![w].favorite = fav]

\* get_current_user_id, ensure_user_exists and the lookup of the target
AddBegin(w, kind, q, h, id) ==
    LET r == get_current_user_id(q, h, users)
        e == UserError(r, users)
        me == [workers[w] EXCEPT !.kind = kind, !.target = id,
                                 !.user_id = IF r.tag = "return" THEN r.val ELSE 0]
    IN  /\ workers[w].pc = "idle"
        /\ IF e.msg # "none"
           THEN workers' = [workers EXCEPT ![w] = [me EXCEPT !.pc = "done", !.status = e.status]]
           ELSE IF ~TargetExists(kind, id)
           THEN workers' = [workers EXCEPT ![w] = [me EXCEPT !.pc = "done", !.status = 404]]
           ELSE workers' = [workers EXCEPT ![w] = [me EXCEPT !.pc = "check"]]
        /\ UNCHANGED <<storeVars, request, response, ctx, resolved>>

\* exists = Favorite.query.filter_by(...).first(); if exists: return ..., 200
AddCheck(w) ==
    LET me == workers[w]
        exists == FilterByUserTarget(favorites, me.kind, me.user_id, me.target)
    IN  /\ me.pc = "check"
        /\ IF exists # {}
           THEN \E x \in exists : Finished(w, 200, x)
           ELSE workers' = [workers EXCEPT ![w].pc = "insert"]
        /\ UNCHANGED <<storeVars, request, response, ctx, resolved>>

\* fav = Favorite(...); db.session.add(fav); db.session.commit(); return ..., 201
AddCommit(w) ==
    LET me == workers[w]
    IN  /\ me.pc = "insert"
        /\ \E id \in NewIds(favorites) :
              LET fav == NewTargetFavorite(me.kind, id, me.user_id, me.target)
              IN  /\ favorites' = InsertFavorite(favorites, fav)
                  /\ Finished(w, 201, fav)
        /\ UNCHANGED <<users, pokemons, regions, request, response, ctx, resolved>>

\* the response is sent; the worker takes the next request
AddReturn(w) ==
    /\ workers[w].pc = "done"
    /\ workers' = [workers EXCEPT ![w] = IdleWorker]
    /\ UNCHANGED <<storeVars, request, response, ctx, resolved>>

NextConc ==
    \/ \E w \in Workers, q \in RequestParams, h \in RequestParams, id \in PathIds :
          AddBegin(w, "pokemon", q, h, id)
    \/ \E w \in Workers, q \in RequestParams, h \in RequestParams, id \in PathIds :
          AddBegin(w, "region", q, h, id)
    \/ \E w \in Workers : AddCheck(w)
    \/ \E w \in Workers : AddCommit(w)
    \/ \E w \in Workers : AddReturn(w)

SpecConc == Init /\ [][NextConc]_vars

----------------------------------------------------------------------------
(* Vocabulary of the properties, written out from the table's columns      *)

PokemonRows(favs, u, p) == {f \in favs : f.user_id = u /\ f.pokemon_id = p}
RegionRows(favs, u, r) == {f \in favs : f.user_id = u /\ f.region_id = r}
UserRows(favs, u) == {f \in favs : f.user_id = u}

\* the step just taken answered a request `op` of an existing user
ByExistingUser(op) ==
    /\ request'.op = op
    /\ request'.resolved.tag = "return"
    /\ request'.resolved.val \in users

FavoriteOps ==
    {"list", "add_pokemon", "add_region", "delete_pokemon", "delete_region"}

----------------------------------------------------------------------------
\* C1: with handlers run one at a time from an empty favorites table, the
\* table never holds two rows with the same (user_id, pokemon_id) nor two
\* rows with the same (user_id, region_id).
C1_AtMostOnePerPair ==
    \A f \in favorites, g \in favorites :
        /\ f.user_id = g.user_id
        /\ \/ (f.pokemon_id # Null /\ f.pokemon_id = g.pokemon_id)
           \/ (f.region_id # Null /\ f.region_id = g.region_id)
        => f = g

\* a repeated add was answered while the table held three rows
C1_Witness ==
    /\ Cardinality(favorites) = 3
    /\ request.op \in {"add_pokemon", "add_region"}
    /\ response.status = 200

\* C2: every row of the favorites table has exactly one of pokemon_id and
\* region_id set.
C2_ExactlyOneTarget ==
    \A f \in favorites : (f.pokemon_id = Null) # (f.region_id = Null)

\* rows of both kinds are in the table after a delete went through
C2_Witness ==
    /\ \E f \in favorites : f.pokemon_id # Null
    /\ \E f \in favorites : f.region_id # Null
    /\ request.op \in {"delete_pokemon", "delete_region"}
    /\ response.status = 200

\* C3 as stated: whenever the (user, pokemon) favorite exists, a further add
\* by that user answers 200 with the existing row and leaves the table as it
\* was; likewise for regions.
C3_RepeatAddAlways200 ==
    [][/\ ( /\ request'.op = "add_pokemon"
            /\ request'.resolved.tag = "return"
            /\ PokemonRows(favorites, request'.resolved.val, request'.target) # {} )
          => /\ response'.status = 200
             /\ response'.favorite \in
                   PokemonRows(favorites, request'.resolved.val, request'.target)
             /\ favorites' = favorites
       /\ ( /\ request'.op = "add_region"
            /\ request'.resolved.tag = "return"
            /\ RegionRows(favorites, request'.resolved.val, request'.target) # {} )
          => /\ response'.status = 200
             /\ response'.favorite \in
                   RegionRows(favorites, request'.resolved.val, request'.target)
             /\ favorites' = favorites
      ]_vars

\* C3 amended: the same, for an existing user and a Pokemon (Region) row that
\* still exists; when the row is gone the add answers 404 and the table is
\* still unchanged.
C3_RepeatAddIdempotent ==
    [][/\ ( /\ ByExistingUser("add_pokemon")
            /\ PokemonRows(favorites, request'.resolved.val, request'.target) # {} )
          => /\ favorites' = favorites
             /\ IF request'.target \in pokemons
                THEN /\ response'.status = 200
                     /\ response'.favorite \in
                           PokemonRows(favorites, request'.resolved.val, request'.target)
                ELSE response'.status = 404
       /\ ( /\ ByExistingUser("add_region")
            /\ RegionRows(favorites, request'.resolved.val, request'.target) # {} )
          => /\ favorites' = favorites
             /\ IF request'.target \in regions
                THEN /\ response'.status = 200
                     /\ response'.favorite \in
                           RegionRows(favorites, request'.resolved.val, request'.target)
                ELSE response'.status = 404
      ]_vars

\* a repeated add answered 200 with a row of the table
C3_Witness ==
    /\ request.op \in {"add_pokemon", "add_region"}
    /\ response.status = 200
    /\ response.favorite \in favorites
    /\ response.favorite.user_id = request.resolved.val

\* C4: a delete by an existing user who has no favorite for the target
\* answers 404 and leaves the favorites table unchanged.
C4_DeleteMissing404 ==
    [][/\ ( /\ ByExistingUser("delete_pokemon")
            /\ PokemonRows(favorites, request'.resolved.val, request'.target) = {} )
          => response'.status = 404 /\ favorites' = favorites
       /\ ( /\ ByExistingUser("delete_region")
            /\ RegionRows(favorites, request'.resolved.val, request'.target) = {} )
          => response'.status = 404 /\ favorites' = favorites
      ]_vars

\* a delete answered "not in favorites" while another user holds the target
C4_Witness ==
    /\ request.op = "delete_pokemon"
    /\ response.status = 404
    /\ response.msg = "not in favorites"
    /\ \E f \in favorites :
          f.pokemon_id = request.target /\ f.user_id # request.resolved.val

\* C6: in each of the five favorites operations a resolved user id that is
\* not in the users table is answered 404 "user not found", whatever the
\* target, and the favorites table is unchanged; no row is ever inserted for
\* a user id that is not in the users table.
C6_MissingUser404 ==
    [][/\ ( /\ request'.op \in FavoriteOps
            /\ request'.resolved.tag = "return"
            /\ request'.resolved.val \notin users )
          => /\ response'.status = 404
             /\ response'.msg = "user not found"
             /\ favorites' = favorites
       /\ \A f \in favorites' \ favorites : f.user_id \in users
      ]_vars

\* a missing user was reported on an add whose target is missing too
C6_Witness ==
    /\ request.op = "add_pokemon"
    /\ request.target \notin pokemons
    /\ request.resolved.tag = "return"
    /\ request.resolved.val \notin users
    /\ response.msg = "user not found"

\* C7: an add by an existing user for an existing Pokemon with no prior
\* favorite answers 201 and adds exactly one row (user, pokemon, null),
\* leaving the others; for a missing Pokemon it answers 404 and adds
\* nothing.  Regions likewise.
C7_AddCreates ==
    [][/\ ( /\ ByExistingUser("add_pokemon")
            /\ request'.target \in pokemons
            /\ PokemonRows(favorites, request'.resolved.val, request'.target) = {} )
          => /\ response'.status = 201
             /\ \E f \in favorites' \ favorites :
                   /\ favorites' = favorites \cup {f}
                   /\ f.user_id = request'.resolved.val
                   /\ f.pokemon_id = request'.target
                   /\ f.region_id = Null
                   /\ response'.favorite = f
       /\ ( ByExistingUser("add_pokemon") /\ request'.target \notin pokemons )
          => response'.status = 404 /\ favorites' = favorites
       /\ ( /\ ByExistingUser("add_region")
            /\ request'.target \in regions
            /\ RegionRows(favorites, request'.resolved.val, request'.target) = {} )
          => /\ response'.status = 201
             /\ \E f \in favorites' \ favorites :
                   /\ favorites' = favorites \cup {f}
                   /\ f.user_id = request'.resolved.val
                   /\ f.region_id = request'.target
                   /\ f.pokemon_id = Null
                   /\ response'.favorite = f
       /\ ( ByExistingUser("add_region") /\ request'.target \notin regions )
          => response'.status = 404 /\ favorites' = favorites
      ]_vars

\* a region favorite was created beside the same user's pokemon favorite
C7_Witness ==
    /\ request.op = "add_region"
    /\ response.status = 201
    /\ response.favorite \in favorites
    /\ PokemonRows(favorites, request.resolved.val, request.target) # {}

\* C8: a delete by a user who has the favorite answers 200, leaves no row of
\* that (user, target) pair, so that the user's list no longer shows it, and
\* removes nothing else.
C8_DeleteRemovesOnlyThat ==
    [][/\ ( /\ ByExistingUser("delete_pokemon")
            /\ PokemonRows(favorites, request'.resolved.val, request'.target) # {} )
          => /\ response'.status = 200
             /\ PokemonRows(favorites', request'.resolved.val, request'.target) = {}
             /\ favorites' = favorites \
                   PokemonRows(favorites, request'.resolved.val, request'.target)
             /\ LET l == ListItems(favorites', request'.resolved.val, pokemons, regions)
                IN  \A i \in 1..Len(l) : l[i].fav.pokemon_id # request'.target
       /\ ( /\ ByExistingUser("delete_region")
            /\ RegionRows(favorites, request'.resolved.val, request'.target) # {} )
          => /\ response'.status = 200
             /\ RegionRows(favorites', request'.resolved.val, request'.target) = {}
             /\ favorites' = favorites \
                   RegionRows(favorites, request'.resolved.val, request'.target)
             /\ LET l == ListItems(favorites', request'.resolved.val, pokemons, regions)
                IN  \A i \in 1..Len(l) : l[i].fav.region_id # request'.target
      ]_vars

\* a pokemon favorite was deleted; the same user's region favorite with the
\* same number and another user's favorite of that pokemon are still there
C8_Witness ==
    /\ request.op = "delete_pokemon"
    /\ response.status = 200
    /\ RegionRows(favorites, request.resolved.val, request.target) # {}
    /\ \E f \in favorites :
          f.pokemon_id = request.target /\ f.user_id # request.resolved.val

\* C9: the list of an existing user answers 200 with exactly that user's
\* rows, lowest id first, each row with a pokemon_id (region_id) carrying the
\* serialization of that Pokemon (Region) or null when it is gone; the store
\* is unchanged.
C9_ListIsUsersRowsInOrder ==
    [][ByExistingUser("list") =>
         LET l == response'.items
             u == request'.resolved.val
         IN  /\ response'.status = 200
             /\ UNCHANGED storeVars
             /\ {l[i].fav : i \in 1..Len(l)} = UserRows(favorites, u)
             /\ Len(l) = Cardinality(UserRows(favorites, u))
             /\ \A i \in 1..Len(l), j \in 1..Len(l) :
                   i < j => l[i].fav.id < l[j].fav.id
             /\ \A i \in 1..Len(l) :
                   /\ l[i].fav.pokemon_id # Null =>
                         l[i].pokemon =
                            IF l[i].fav.pokemon_id \in pokemons
                            THEN PokemonSerialize(l[i].fav.pokemon_id)
                            ELSE JsonNull
                   /\ l[i].fav.region_id # Null =>
                         l[i].region =
                            IF l[i].fav.region_id \in regions
                            THEN RegionSerialize(l[i].fav.region_id)
                            ELSE JsonNull
      ]_vars

\* a list of two rows, one of a deleted Pokemon, while another user has rows
C9_Witness ==
    /\ request.op = "list"
    /\ response.status = 200
    /\ Len(response.items) = 2
    /\ \E i \in 1..Len(response.items) : response.items[i].pokemon = JsonNull
    /\ \E i \in 1..Len(response.items) : response.items[i].region.tag = "region"
    /\ \E f \in favorites : f.user_id # request.resolved.val

----------------------------------------------------------------------------
\* a string of decimal digits, the usual sense of "numeric"
Numeric(p) ==
    /\ p.present
    /\ Len(p.val) > 0
    /\ \A i \in 1..Len(p.val) : p.val[i] \in AsciiDigits

\* C5: the resolver returns user_id when numeric, else X-User-Id when
\* numeric, else the lowest user id, and fails, with 400, exactly when neither
\* is numeric and there are no users.
C5_ResolverPrecedence ==
    resolved # NoResolved =>
        resolved =
           IF Numeric(ctx.q) THEN Returned(DecimalValue(ctx.q.val))
           ELSE IF Numeric(ctx.h) THEN Returned(DecimalValue(ctx.h.val))
           ELSE IF users # {} THEN Returned(SetMin(users))
           ELSE Raised(400)

----------------------------------------------------------------------------
\* the rows of the pair worker w's request is about
WorkerRows(favs, me) ==
    IF me.kind = "pokemon" THEN PokemonRows(favs, me.user_id, me.target)
    ELSE RegionRows(favs, me.user_id, me.target)

\* C10: a worker that passed the duplicate check commits whatever the table
\* holds by then: it answers 201 and the table gains a row of its pair, also
\* when the other worker has committed the same pair in between.
C10_CommitDoesNotRecheck ==
    [][\A w \in Workers :
          (workers[w].pc = "insert" /\ workers'[w].pc = "done")
          => /\ workers'[w].status = 201
             /\ Cardinality(WorkerRows(favorites', workers[w])) =
                   Cardinality(WorkerRows(favorites, workers[w])) + 1
      ]_vars

\* both workers answered 201 for the same pair and the table holds two rows
\* of it
C10_Witness ==
    /\ \A w \in Workers : workers[w].pc = "done" /\ workers[w].status = 201
    /\ workers[1].kind = workers[2].kind
    /\ workers[1].target = workers[2].target
    /\ workers[1].user_id = workers[2].user_id
    /\ workers[1].favorite # workers[2].favorite
    /\ {workers[1].favorite, workers[2].favorite} \subseteq favorites
    /\ Cardinality(WorkerRows(favorites, workers[1])) = 2

====
